---- MODULE Spec2Model ----
(***************************************************************************)
(* Model of bin/weewx/restful.py: the APRS uploader of weewx_aprs_addon.   *)
(*                                                                         *)
(*   Spec          APRS.postData as a step machine: gate, record fetch,    *)
(*                 unit check, serial open, flushes, the seven TNC writes, *)
(*                 the close of the `with` block and the _lastpost update. *)
(*   SpecConfig    APRSConfig construction (__post_init__).                *)
(*   SpecRadiation APRS._format_radiation as a pure function.              *)
(*                                                                         *)
(* Python values: an Optional is the empty sequence (None) or a sequence   *)
(* of one element; a str is a sequence of one-character strings or, for    *)
(* the TNC payloads, a sequence of pieces; clock and timestamps are whole  *)
(* seconds.                                                                *)
(***************************************************************************)
EXTENDS Integers, Sequences, FiniteSets, TLC

VARIABLES
    config,     \* APRS.config: the fields of APRSConfig postData reads
    lastpost,   \* APRS._lastpost: Optional[int]
    now,        \* time.time()
    lastGood,   \* archive.lastGoodStamp()
    pc,         \* position inside postData ("idle": no attempt running)
    time_ts,    \* postData's argument of the running / last attempt
    gateIn,     \* what _check_post_conditions read in the last attempt
    status,     \* what _check_post_conditions returned in the last attempt
    record,     \* the record fetched in the last attempt (Optional)
    packet,     \* format_weather_data(record) of the last attempt (Optional)
    ser,        \* the serial connection: "closed" or "open"
    cmdIdx,     \* number of commands _send_tnc_commands has written
    exc,        \* exception propagating out of the `with` block (Optional)
    log,        \* serial events of the running / last attempt
    result,     \* how the last attempt ended
    attempts,   \* number of postData calls so far
    opens,      \* number of serial.Serial(...) opens that succeeded
    closes,     \* number of closes
    posted,     \* observation timestamps transmitted, in order (history)
    cfgIn,      \* SpecConfig: the keyword arguments of APRSConfig
    cfgOut,     \* SpecConfig: the outcome of the construction (Optional)
    radIn,      \* SpecRadiation: record.get('radiation') (Optional)
    radOut      \* SpecRadiation: the block returned (Optional)

postVars == <<config, lastpost, now, lastGood, pc, time_ts, gateIn, status,
              record, packet, ser, cmdIdx, exc, log, result, attempts,
              opens, closes, posted>>
cfgVars == <<cfgIn, cfgOut>>
radVars == <<radIn, radOut>>
vars == <<postVars, cfgVars, radVars>>

----------------------------------------------------------------------------
(* Bounds *)

MaxTime == 3
MaxInterval == 2
MaxStale == 1
MaxAttempts == 3
MaxRadiation == 2100
MinRadiation == 12

----------------------------------------------------------------------------
(* Python values *)

None == <<>>
Some(v) == <<v>>
IsNone(o) == o = None
Val(o) == o[1]

\* bool(x) of an Optional[int]: None and 0 are false
Truthy(o) == (~IsNone(o)) /\ Val(o) # 0

LowerCase == <<"n", "e", "o", "m", "s", "x", "c", "a", "l">>
UpperCase == <<"N", "E", "O", "M", "S", "X", "C", "A", "L">>

UpperChar(c) ==
    IF \E i \in DOMAIN LowerCase : LowerCase[i] = c
    THEN UpperCase[CHOOSE i \in DOMAIN LowerCase : LowerCase[i] = c]
    ELSE c

\* str.upper()
Upper(s) == [i \in DOMAIN s |-> UpperChar(s[i])]

Digit == <<"0", "1", "2", "3", "4", "5", "6", "7", "8", "9">>

RECURSIVE Digits(_)
\* str(n) for n >= 0
Digits(n) == IF n < 10 THEN <<Digit[n + 1]>>
             ELSE Append(Digits(n \div 10), Digit[(n % 10) + 1])

RECURSIVE ZeroPad(_, _)
ZeroPad(s, w) == IF Len(s) >= w THEN s ELSE ZeroPad(<<"0">> \o s, w)

\* f"{n:03d}": sign first, then zeros up to a total width of 3
Format03d(n) ==
    IF n >= 0 THEN ZeroPad(Digits(n), 3)
    ELSE <<"-">> \o ZeroPad(Digits(-n), 2)

----------------------------------------------------------------------------
(* SerialConfig and APRSConfig *)

VALID_PARITIES == {<<"N">>, <<"E">>, <<"O">>, <<"M">>, <<"S">>}

ValueError(msg) == [ok |-> FALSE, exc |-> "ValueError", msg |-> msg]

\* SerialConfig.validate_parity: the upper-cased parity, or ValueError
validate_parity(parity) ==
    IF Upper(parity) \notin VALID_PARITIES
    THEN ValueError("parity")
    ELSE [ok |-> TRUE, value |-> Upper(parity)]

\* APRSConfig with the max_tries check off by one (max_tries < 0)
APRSConfig_TriesOffByOne(kw) ==
    IF ~validate_parity(kw.parity).ok THEN validate_parity(kw.parity)
    ELSE IF ~(-90 <= kw.latitude /\ kw.latitude <= 90) THEN ValueError("latitude")
    ELSE IF ~(-180 <= kw.longitude /\ kw.longitude <= 180) THEN ValueError("longitude")
    ELSE IF kw.interval < 0 THEN ValueError("interval")
    ELSE IF kw.stale < 0 THEN ValueError("stale")
    ELSE IF kw.max_tries < 0 THEN ValueError("max_tries")
    ELSE [ok |-> TRUE,
          value |-> [kw EXCEPT !.station = Upper(kw.station),
                               !.parity = validate_parity(kw.parity).value]]

\* APRSConfig(**kw) followed by __post_init__: the object, or the first
\* ValueError raised
APRSConfig(kw) ==
    IF ~validate_parity(kw.parity).ok THEN validate_parity(kw.parity)
    ELSE IF ~(-90 <= kw.latitude /\ kw.latitude <= 90) THEN ValueError("latitude")
    ELSE IF ~(-180 <= kw.longitude /\ kw.longitude <= 180) THEN ValueError("longitude")
    ELSE IF kw.interval < 0 THEN ValueError("interval")
    ELSE IF kw.stale < 0 THEN ValueError("stale")
    ELSE IF kw.max_tries < 1 THEN ValueError("max_tries")
    ELSE [ok |-> TRUE,
          value |-> [kw EXCEPT !.station = Upper(kw.station),
                               !.parity = validate_parity(kw.parity).value]]

\* keyword arguments the checks draw from
Parities == {<<"N">>, <<"e">>, <<"o">>, <<"M">>, <<"s">>, <<"x">>, <<"X">>,
             <<"n", "e">>, <<>>}
Latitudes == {-91, -90, 0, 90, 91}
Longitudes == {-181, -180, 0, 180, 181}
MaxTries == 2

Kwargs(parity, lat, lon, enabled, interval, stale, max_tries) ==
    [station |-> <<"n", "0", "c", "a", "l", "l">>,
     latitude |-> lat, longitude |-> lon,
     hardware |-> "VantagePro",
     parity |-> parity,
     unproto |-> "APRS",
     status_message |-> "weewx",
     enabled |-> enabled,
     interval |-> interval, stale |-> stale, max_tries |-> max_tries]

CfgInit ==
    /\ cfgIn \in {Kwargs(p, la, lo, TRUE, i, s, m) :
                    p \in Parities, la \in Latitudes, lo \in Longitudes,
                    i \in -1..MaxInterval, s \in -1..MaxStale, m \in 0..MaxTries}
    /\ cfgOut = None

\* the caller constructs the settings object
Construct ==
    /\ IsNone(cfgOut)
    /\ cfgOut' = Some(APRSConfig(cfgIn))
    /\ UNCHANGED cfgIn

----------------------------------------------------------------------------
(* APRS._format_radiation *)

\* _format_radiation without the subtraction in the second band
_format_radiation_NoOffset(radiation) ==
    IF IsNone(radiation) THEN <<>>
    ELSE IF Val(radiation) < 1000 THEN <<"L">> \o Format03d(Val(radiation))
    ELSE IF Val(radiation) < 2000 THEN <<"l">> \o Format03d(Val(radiation))
    ELSE <<>>

\* record.get('radiation') is an Optional[int]
_format_radiation(radiation) ==
    IF IsNone(radiation) THEN <<>>
    ELSE IF Val(radiation) < 1000 THEN <<"L">> \o Format03d(Val(radiation))
    ELSE IF Val(radiation) < 2000 THEN <<"l">> \o Format03d(Val(radiation) - 1000)
    ELSE <<>>

RadInit ==
    /\ radIn \in {None} \cup {Some(r) : r \in (-MinRadiation)..MaxRadiation}
    /\ radOut = None

FormatRadiation ==
    /\ IsNone(radOut)
    /\ radOut' = Some(_format_radiation(radIn))
    /\ UNCHANGED radIn

----------------------------------------------------------------------------
(* APRS: the post gate *)

US == "US"
UnitSystems == {"US", "METRIC", "METRICWX"}

\* APRS._check_post_conditions; last_ts is archive.lastGoodStamp(), clock is
\* time.time(), _lastpost the Optional[int] field
_check_post_conditions(enabled, time, last_ts, clock, stale, interval, _lastpost) ==
    IF ~enabled THEN "DISABLED"
    ELSE IF time # last_ts THEN "NON_LATEST"
    ELSE IF clock - time > stale THEN "STALE"
    ELSE IF Truthy(_lastpost) /\ time - Val(_lastpost) < interval THEN "INTERVAL_WAIT"
    ELSE "SUCCESS"

----------------------------------------------------------------------------
(* APRS: the encoder, as far as the transmitted payload is concerned *)

\* the hardware identifier of format_weather_data
hardware_str(hardware) == IF hardware = "VantagePro" THEN <<".DsVP">> ELSE <<".Unkn">>

\* format_weather_data: a sequence of pieces.  The position, wind, rain,
\* barometer and humidity blocks are left out (weeutil and weewx.units build
\* them), and the time block is the decimal dateTime.
format_weather_data(cfg, rec) ==
    <<"@">> \o Digits(rec.dateTime) \o <<"z">>
        \o _format_radiation(rec.radiation) \o hardware_str(cfg.hardware)

----------------------------------------------------------------------------
(* APRS: the TNC driver *)

ETX == "^C"     \* the control byte 0x03
CR == "\r"

\* str.encode()
encode(cmd) == [bytes |-> cmd]

\* the command list with the status beacon sent before the packet
commands_StatusFirst(cfg, pkt) ==
    << [cmd |-> <<ETX>>, delay |-> 1],
       [cmd |-> <<"mycall ">> \o cfg.station \o <<CR>>, delay |-> 1],
       [cmd |-> <<"unproto ", cfg.unproto, CR>>, delay |-> 1],
       [cmd |-> <<"conv", CR>>, delay |-> 1],
       [cmd |-> <<">", cfg.status_message, CR>>, delay |-> 1],
       [cmd |-> pkt \o <<CR>>, delay |-> 1],
       [cmd |-> <<ETX>>, delay |-> 0] >>

\* the (command, delay) list of _send_tnc_commands
commands(cfg, pkt) ==
    << [cmd |-> <<ETX>>, delay |-> 1],
       [cmd |-> <<"mycall ">> \o cfg.station \o <<CR>>, delay |-> 1],
       [cmd |-> <<"unproto ", cfg.unproto, CR>>, delay |-> 1],
       [cmd |-> <<"conv", CR>>, delay |-> 1],
       [cmd |-> pkt \o <<CR>>, delay |-> 1],
       [cmd |-> <<">", cfg.status_message, CR>>, delay |-> 1],
       [cmd |-> <<ETX>>, delay |-> 0] >>

\* what a serial call can do: succeed, raise serial.SerialException, or raise
\* another Exception (OSError, ValueError, ...)
Outcomes == {"ok", "SerialException", "OSError"}

APRSError(msg) == [type |-> "APRSError", msg |-> msg]

\* the except clause of _send_tnc_commands: what leaves the function when
\* ser.write raises e
send_except(e) ==
    IF e = "SerialException" THEN APRSError("Failed to send TNC commands")
    ELSE [type |-> e, msg |-> ""]

\* postData without its `except Exception` clause
post_except_SerialOnly(x) ==
    IF x.type = "SerialException" THEN APRSError("Serial communication error")
    ELSE x

\* the except clauses of postData: what postData raises when x leaves the
\* try block
post_except(x) ==
    IF x.type = "SerialException" THEN APRSError("Serial communication error")
    ELSE APRSError("Unexpected error during APRS upload")

\* how an attempt ends
NoResult == [kind |-> "none", type |-> "", msg |-> ""]
Running == [kind |-> "running", type |-> "", msg |-> ""]
Returned == [kind |-> "return", type |-> "", msg |-> ""]
Raised(x) == [kind |-> "raise", type |-> x.type, msg |-> x.msg]

\* `raise "..."`: a str is not an exception, Python raises TypeError instead
raise_str(s) ==
    Raised([type |-> "TypeError", msg |-> "exceptions must derive from BaseException"])

----------------------------------------------------------------------------
(* APRS.postData, step by step *)

RecordRadiations == {None, Some(450)}

\* self.extractRecordFrom(archive, time_ts): the archive's record at time_ts.
\* restful.py calls the method without defining it; it is the archive's
\* "fetch the full record at a given timestamp" of the specification.
extractRecordFrom(ts, units, radiation) ==
    [dateTime |-> ts, usUnits |-> units, radiation |-> radiation]

PostInit ==
    /\ \E en \in BOOLEAN, i \in 0..MaxInterval, s \in 0..MaxStale :
         config = APRSConfig(Kwargs(<<"n">>, 0, 0, en, i, s, 3)).value
    /\ lastpost = None
    /\ now = 0
    /\ lastGood = 0
    /\ pc = "idle"
    /\ time_ts = 0
    /\ gateIn = None
    /\ status = "none"
    /\ record = None
    /\ packet = None
    /\ ser = "closed"
    /\ cmdIdx = 0
    /\ exc = None
    /\ log = <<>>
    /\ result = NoResult
    /\ attempts = 0
    /\ opens = 0
    /\ closes = 0
    /\ posted = <<>>

envVars == <<now, lastGood>>
serVars == <<ser, opens, closes>>

\* the wall clock advances
Tick ==
    /\ now < MaxTime
    /\ now' = now + 1
    /\ UNCHANGED <<config, lastpost, lastGood, pc, time_ts, gateIn, status, record,
                   packet, ser, cmdIdx, exc, log, result, attempts, opens, closes,
                   posted>>

\* the archive commits a newer good record
ArchiveAppend(ts) ==
    /\ lastGood < ts
    /\ ts <= now
    /\ lastGood' = ts
    /\ UNCHANGED <<config, lastpost, now, pc, time_ts, gateIn, status, record,
                   packet, ser, cmdIdx, exc, log, result, attempts, opens, closes,
                   posted>>

\* postData is called: lines 199-202
PostData(ts) ==
    /\ pc = "idle"
    /\ attempts < MaxAttempts
    /\ attempts' = attempts + 1
    /\ time_ts' = ts
    /\ gateIn' = Some([time |-> ts, last_ts |-> lastGood, clock |-> now,
                       _lastpost |-> lastpost])
    /\ status' = _check_post_conditions(config.enabled, ts, lastGood, now,
                                        config.stale, config.interval, lastpost)
    /\ record' = None
    /\ packet' = None
    /\ cmdIdx' = 0
    /\ exc' = None
    /\ log' = <<>>
    /\ IF status' # "SUCCESS"
       THEN /\ result' = raise_str("APRS: {status.value}")
            /\ pc' = "idle"
       ELSE /\ result' = Running
            /\ pc' = "extract"
    /\ UNCHANGED <<config, lastpost, envVars, serVars, posted>>

\* lines 204-209: fetch the record, check its units, encode it
ExtractRecord(units, radiation) ==
    /\ pc = "extract"
    /\ record' = Some(extractRecordFrom(time_ts, units, radiation))
    /\ IF Val(record').usUnits # US
       THEN /\ result' = raise_str("APRS: Units must be US Customary.")
            /\ packet' = None
            /\ pc' = "idle"
       ELSE /\ result' = result
            /\ packet' = Some(format_weather_data(config, Val(record')))
            /\ pc' = "open"
    /\ UNCHANGED <<config, lastpost, envVars, time_ts, gateIn, status, serVars,
                   cmdIdx, exc, log, attempts, posted>>

\* lines 212-218: serial.Serial(...) opens the port or raises
SerialOpen(outcome) ==
    /\ pc = "open"
    /\ IF outcome = "ok"
       THEN /\ ser' = "open"
            /\ opens' = opens + 1
            /\ log' = Append(log, [op |-> "open"])
            /\ result' = result
            /\ pc' = "flushOutput"
       ELSE /\ result' = Raised(post_except([type |-> outcome, msg |-> ""]))
            /\ pc' = "idle"
            /\ UNCHANGED <<ser, opens, log>>
    /\ UNCHANGED <<config, lastpost, envVars, time_ts, gateIn, status, record,
                   packet, closes, cmdIdx, exc, attempts, posted>>

\* line 219
FlushOutput(outcome) ==
    /\ pc = "flushOutput"
    /\ IF outcome = "ok"
       THEN /\ log' = Append(log, [op |-> "flushOutput"])
            /\ exc' = exc
            /\ pc' = "flushInput"
       ELSE /\ exc' = Some([type |-> outcome, msg |-> ""])
            /\ log' = log
            /\ pc' = "exit"
    /\ UNCHANGED <<config, lastpost, envVars, time_ts, gateIn, status, record,
                   packet, serVars, cmdIdx, result, attempts, posted>>

\* line 220
FlushInput(outcome) ==
    /\ pc = "flushInput"
    /\ IF outcome = "ok"
       THEN /\ log' = Append(log, [op |-> "flushInput"])
            /\ exc' = exc
            /\ pc' = "send"
       ELSE /\ exc' = Some([type |-> outcome, msg |-> ""])
            /\ log' = log
            /\ pc' = "exit"
    /\ UNCHANGED <<config, lastpost, envVars, time_ts, gateIn, status, record,
                   packet, serVars, cmdIdx, result, attempts, posted>>

\* one turn of the loop of _send_tnc_commands (lines 123-129): the next
\* command is written, or the write raises and the function is left
SendTncCommand(outcome) ==
    /\ pc = "send"
    /\ IF outcome = "ok"
       THEN /\ log' = Append(log, [op |-> "write",
                                   data |-> encode(commands(config, Val(packet))[cmdIdx + 1].cmd)])
            /\ cmdIdx' = cmdIdx + 1
            /\ exc' = exc
            /\ pc' = IF cmdIdx' = Len(commands(config, Val(packet))) THEN "exit" ELSE "send"
       ELSE /\ exc' = Some(send_except(outcome))
            /\ pc' = "exit"
            /\ UNCHANGED <<log, cmdIdx>>
    /\ UNCHANGED <<config, lastpost, envVars, time_ts, gateIn, status, record,
                   packet, serVars, result, attempts, posted>>

\* SerialClose with line 228 moved into a `finally`: the post is recorded
\* whether or not the block raised
SerialClose_RecordsAlways ==
    /\ pc = "exit"
    /\ ser' = "closed"
    /\ closes' = closes + 1
    /\ log' = Append(log, [op |-> "close"])
    /\ lastpost' = Some(time_ts)
    /\ IF IsNone(exc)
       THEN /\ posted' = Append(posted, time_ts)
            /\ result' = Returned
       ELSE /\ result' = Raised(post_except(Val(exc)))
            /\ UNCHANGED posted
    /\ pc' = "idle"
    /\ UNCHANGED <<config, envVars, time_ts, gateIn, status, record, packet,
                   opens, cmdIdx, exc, attempts>>

\* SerialClose without the `with`: the port is closed by an explicit close()
\* after the commands, which an exception skips
SerialClose_LeakOnError ==
    /\ pc = "exit"
    /\ IF IsNone(exc)
       THEN /\ ser' = "closed"
            /\ closes' = closes + 1
            /\ log' = Append(log, [op |-> "close"])
            /\ lastpost' = Some(time_ts)
            /\ posted' = Append(posted, time_ts)
            /\ result' = Returned
       ELSE /\ result' = Raised(post_except(Val(exc)))
            /\ UNCHANGED <<ser, closes, log, lastpost, posted>>
    /\ pc' = "idle"
    /\ UNCHANGED <<config, envVars, time_ts, gateIn, status, record, packet,
                   opens, cmdIdx, exc, attempts>>

\* the `with` block is left (the port is closed), then either the except
\* clauses raise APRSError (lines 223-226) or line 228 records the post
SerialClose ==
    /\ pc = "exit"
    /\ ser' = "closed"
    /\ closes' = closes + 1
    /\ log' = Append(log, [op |-> "close"])
    /\ IF IsNone(exc)
       THEN /\ lastpost' = Some(time_ts)
            /\ posted' = Append(posted, time_ts)
            /\ result' = Returned
       ELSE /\ result' = Raised(post_except(Val(exc)))
            /\ UNCHANGED <<lastpost, posted>>
    /\ pc' = "idle"
    /\ UNCHANGED <<config, envVars, time_ts, gateIn, status, record, packet,
                   opens, cmdIdx, exc, attempts>>

----------------------------------------------------------------------------
(* Specifications *)

\* the variables of a specification that does not use them
CfgIdle == cfgIn = Kwargs(<<"n">>, 0, 0, TRUE, 0, 0, 1) /\ cfgOut = None
RadIdle == radIn = None /\ radOut = None

Init == PostInit /\ CfgIdle /\ RadIdle

Next ==
    \/ Tick /\ UNCHANGED <<cfgVars, radVars>>
    \/ (\E ts \in 0..MaxTime : ArchiveAppend(ts)) /\ UNCHANGED <<cfgVars, radVars>>
    \/ (\E ts \in 0..MaxTime : PostData(ts)) /\ UNCHANGED <<cfgVars, radVars>>
    \/ (\E units \in UnitSystems, radiation \in RecordRadiations :
          ExtractRecord(units, radiation)) /\ UNCHANGED <<cfgVars, radVars>>
    \/ (\E outcome \in Outcomes : SerialOpen(outcome)) /\ UNCHANGED <<cfgVars, radVars>>
    \/ (\E outcome \in Outcomes : FlushOutput(outcome)) /\ UNCHANGED <<cfgVars, radVars>>
    \/ (\E outcome \in Outcomes : FlushInput(outcome)) /\ UNCHANGED <<cfgVars, radVars>>
    \/ (\E outcome \in Outcomes : SendTncCommand(outcome)) /\ UNCHANGED <<cfgVars, radVars>>
    \/ SerialClose /\ UNCHANGED <<cfgVars, radVars>>

Spec == Init /\ [][Next]_vars

InitConfig == CfgInit /\ PostInit /\ config.enabled /\ config.interval = 0
              /\ config.stale = 0 /\ RadIdle

NextConfig == Construct /\ UNCHANGED <<postVars, radVars>>

SpecConfig == InitConfig /\ [][NextConfig]_vars

InitRadiation == RadInit /\ PostInit /\ config.enabled /\ config.interval = 0
                 /\ config.stale = 0 /\ CfgIdle

NextRadiation == FormatRadiation /\ UNCHANGED <<postVars, cfgVars>>

SpecRadiation == InitRadiation /\ [][NextRadiation]_vars

----------------------------------------------------------------------------
(* The post gate: C1, C5, C6, C7 *)

Rejections == {"DISABLED", "NON_LATEST", "STALE", "INTERVAL_WAIT"}

\* the decision sequence as specified: "set" is "not None"
GateRule(enabled, time, last_ts, clock, stale, interval, _lastpost) ==
    CASE ~enabled -> "DISABLED"
      [] enabled /\ time # last_ts -> "NON_LATEST"
      [] enabled /\ time = last_ts /\ clock - time > stale -> "STALE"
      [] enabled /\ time = last_ts /\ clock - time <= stale
           /\ ~IsNone(_lastpost) /\ time - Val(_lastpost) < interval -> "INTERVAL_WAIT"
      [] OTHER -> "SUCCESS"

\* C1: in every attempt the gate returns the outcome of the first matching
\* rule (DISABLED, NON_LATEST, STALE, INTERVAL_WAIT, else eligible), where a
\* last-post timestamp of 0 counts as set.
C1_GateFirstMatchingRule ==
    ~IsNone(gateIn) =>
        status = GateRule(config.enabled, Val(gateIn).time, Val(gateIn).last_ts,
                          Val(gateIn).clock, config.stale, config.interval,
                          Val(gateIn)._lastpost)

\* APRSStatus: the value of each member
APRSStatus ==
    [DISABLED |-> "Disabled", STALE |-> "Stale", INTERVAL_WAIT |-> "Interval Wait",
     NON_LATEST |-> "Non Latest Record", INVALID_UNITS |-> "Invalid Units",
     SUCCESS |-> "Success"]

\* the gate outcomes a caller can tell from how an attempt ended
Identified(res) ==
    {st \in DOMAIN APRSStatus :
        res.kind \in {"return", "raise"} /\ res.type # "TypeError"
        /\ (res.msg = st \/ res.msg = APRSStatus[st])}

\* C5: an attempt the gate rejects ends with a result that identifies the
\* rejection, never with a generic exception that carries no gate outcome.
C5_RejectionIdentified ==
    (pc = "idle" /\ status \in Rejections) => Identified(result) = {status}

\* an attempt that passed the gate and fetched a record in another unit system
UnitsRejected ==
    /\ pc = "idle"
    /\ status = "SUCCESS"
    /\ ~IsNone(record)
    /\ Val(record).usUnits # US

\* C6: an eligible attempt whose record is not US customary fails with a
\* UnitsError, opens no connection, writes nothing and leaves the last-post
\* timestamp unchanged.
C6_UnitsErrorNoTransmit ==
    UnitsRejected =>
        /\ result.kind = "raise"
        /\ result.type = "UnitsError"
        /\ log = <<>>
        /\ lastpost = Val(gateIn)._lastpost

\* C7: two consecutive successful transmissions are at least the interval
\* apart, and with interval 0 no attempt is rejected as INTERVAL_WAIT.
C7_IntervalBetweenPosts ==
    /\ \A k \in 1..(Len(posted) - 1) : posted[k + 1] - posted[k] >= config.interval
    /\ config.interval = 0 => status # "INTERVAL_WAIT"

----------------------------------------------------------------------------
(* The transmitter: C2, C3, C4, C8 *)

IsWrite(e) == e.op = "write"
Writes(l) == SelectSeq(l, IsWrite)

\* the step that ends an attempt
AttemptEnds == pc # "idle" /\ pc' = "idle"

\* the step that ends an attempt in which the gate was eligible, the units
\* were US customary, the port was open and all seven writes were made
SuccessEnds ==
    /\ AttemptEnds
    /\ status = "SUCCESS"
    /\ ~IsNone(record) /\ Val(record).usUnits = US
    /\ ser = "open"
    /\ Len(Writes(log)) = 7
    /\ IsNone(exc)

\* C2: _lastpost starts unset; the step that ends a fully successful attempt
\* sets it to that attempt's timestamp (one more entry in the history of
\* posts), and no other step changes it.
C2_LastPostOnlyOnSuccess ==
    /\ IsNone(lastpost)
    /\ [][/\ SuccessEnds =>
               (lastpost' = Some(time_ts) /\ posted' = Append(posted, time_ts))
          /\ ~SuccessEnds => (lastpost' = lastpost /\ posted' = posted)]_vars

\* an attempt failed at a TNC write after an earlier post of another record
C2_Witness ==
    /\ pc = "idle"
    /\ result.kind = "raise"
    /\ cmdIdx \in 1..6
    /\ ~IsNone(lastpost)
    /\ Val(lastpost) # time_ts
    /\ Len(posted) = 1

\* C3: an attempt that opened the port has closed it when postData returns
\* or raises; between attempts no port is open and opens equal closes.
C3_SerialClosedAfterAttempt ==
    /\ opens = closes + (IF ser = "open" THEN 1 ELSE 0)
    /\ pc = "idle" => ser = "closed"
    /\ (pc = "idle" /\ log # <<>>) =>
           (log[1].op = "open" /\ log[Len(log)].op = "close")
    /\ ser = "open" => pc \in {"flushOutput", "flushInput", "send", "exit"}

\* two attempts opened the port, the last one failed in a flush
C3_Witness ==
    /\ pc = "idle"
    /\ opens = 2
    /\ closes = 2
    /\ result.kind = "raise"
    /\ Len(log) = 3
    /\ log[2].op = "flushOutput"

\* the seven payloads as specified
Payloads(cfg, pkt) ==
    << <<ETX>>,
       <<"mycall ">> \o cfg.station \o <<CR>>,
       <<"unproto ", cfg.unproto, CR>>,
       <<"conv", CR>>,
       pkt \o <<CR>>,
       <<">", cfg.status_message, CR>>,
       <<ETX>> >>

\* C4: a successful attempt wrote exactly the seven payloads, in order, and
\* both flushes lie between the open and the first write.
C4_SevenPayloadsInOrder ==
    (pc = "idle" /\ result.kind = "return") =>
        /\ Len(log) = 11
        /\ log[1].op = "open"
        /\ {log[2].op, log[3].op} = {"flushOutput", "flushInput"}
        /\ \A k \in 1..7 :
             /\ log[3 + k].op = "write"
             /\ log[3 + k].data.bytes = Payloads(config, Val(packet))[k]
        /\ log[11].op = "close"
        /\ config.station = <<"N", "0", "C", "A", "L", "L">>

\* a successful attempt whose packet carries a radiation block
C4_Witness ==
    /\ pc = "idle"
    /\ result.kind = "return"
    /\ ~IsNone(Val(record).radiation)
    /\ Len(Writes(log)) = 7

\* C8: once a flush or a write has failed, no further payload is written in
\* that attempt and postData ends by raising APRSError.
C8_FailureAbortsAttempt ==
    [][(~IsNone(exc) /\ attempts' = attempts) =>
          /\ Writes(log') = Writes(log)
          /\ pc' = "idle" => (result'.kind = "raise" /\ result'.type = "APRSError")]_vars

\* the third write raised something other than a SerialException
C8_Witness ==
    /\ pc = "idle"
    /\ ~IsNone(exc)
    /\ Val(exc).type = "OSError"
    /\ cmdIdx = 2
    /\ Len(Writes(log)) = 2
    /\ result.type = "APRSError"

----------------------------------------------------------------------------
(* Settings construction: C9 *)

\* the parities accepted, case-insensitively
ParityAccepted == {<<"N">>, <<"E">>, <<"O">>, <<"M">>, <<"S">>,
                   <<"n">>, <<"e">>, <<"o">>, <<"m">>, <<"s">>}

InRange(kw) ==
    /\ kw.parity \in ParityAccepted
    /\ kw.latitude >= -90 /\ kw.latitude <= 90
    /\ kw.longitude >= -180 /\ kw.longitude <= 180
    /\ kw.interval >= 0
    /\ kw.stale >= 0
    /\ kw.max_tries >= 1

\* C9: construction succeeds exactly when every field is in range, fails
\* with the validation error (ValueError) otherwise, and an object it
\* produces has every field in range.
C9_ConstructionValidates ==
    ~IsNone(cfgOut) =>
        /\ Val(cfgOut).ok <=> InRange(cfgIn)
        /\ ~Val(cfgOut).ok => Val(cfgOut).exc = "ValueError"
        /\ Val(cfgOut).ok =>
             /\ InRange(Val(cfgOut).value)
             /\ Val(cfgOut).value.parity \in VALID_PARITIES

\* only max_tries is out of range, and the construction failed
C9_Witness ==
    /\ ~IsNone(cfgOut)
    /\ ~Val(cfgOut).ok
    /\ cfgIn.max_tries = 0
    /\ InRange([cfgIn EXCEPT !.max_tries = 1])
    /\ cfgIn.parity = <<"e">>

----------------------------------------------------------------------------
(* The radiation block: C10 *)

\* the three decimal digits of n, 0 <= n < 1000
ThreeDigits(n) == <<Digit[(n \div 100) + 1], Digit[((n \div 10) % 10) + 1],
                    Digit[(n % 10) + 1]>>

\* C10: for a radiation r >= 0 the block is L and r in three digits below
\* 1000, l and r - 1000 in three digits from 1000 to 1999, and empty from
\* 2000 on or when radiation is absent; it is empty or four characters long.
C10_RadiationBlock ==
    ~IsNone(radOut) =>
        /\ IsNone(radIn) => Val(radOut) = <<>>
        /\ (~IsNone(radIn) /\ Val(radIn) >= 0) =>
             /\ Val(radIn) < 1000 => Val(radOut) = <<"L">> \o ThreeDigits(Val(radIn))
             /\ (1000 <= Val(radIn) /\ Val(radIn) < 2000) =>
                    Val(radOut) = <<"l">> \o ThreeDigits(Val(radIn) - 1000)
             /\ Val(radIn) >= 2000 => Val(radOut) = <<>>
             /\ Len(Val(radOut)) \in {0, 4}
        /\ radIn = Some(999) => Val(radOut) = <<"L", "9", "9", "9">>
        /\ radIn = Some(1000) => Val(radOut) = <<"l", "0", "0", "0">>
        /\ radIn = Some(1999) => Val(radOut) = <<"l", "9", "9", "9">>
        /\ radIn = Some(2000) => Val(radOut) = <<>>

\* the block of radiation 1999
C10_Witness ==
    /\ radIn = Some(1999)
    /\ radOut = Some(<<"l", "9", "9", "9">>)

====
